---- MODULE Spec2Model ----
(***************************************************************************)
(* The HIL loop controller of the 6-DOF simulator: Drone::update and the   *)
(* MAVLink handlers of the Drone with the ground corrector (the first      *)
(* translation unit of src/unnamed/part_002, lines 1-209).                 *)
(*                                                                         *)
(* Two threads: the simulation thread runs Drone::update, one phase per    *)
(* step (pc); the relay's I/O thread calls handle_mavlink_message and may  *)
(* open or close the connection at any moment.                             *)
(*                                                                         *)
(* The vehicle's state vector, the ground corrector that clamps it and the *)
(* encoder that packs it into the outbound frames                          *)
(* (src/src/Interfaces/DroneStateEncoder.h) are part of the same calls.    *)
(***************************************************************************)
EXTENDS Integers, Sequences, FiniteSets, TLC

(* ------------------------------ bounds -------------------------------- *)
\* calls of Drone::update explored under Spec
MaxTicks == 3
\* frames the inbound queue holds at once
MaxQueue == 2
\* frames the I/O thread pushes during a run
MaxPush == 2
\* calls of Drone::update explored under SpecBootstrap
BootTicks == 302
\* the clock's advance from one call of update to the next
TickUs == 1
\* calls of Drone::update explored under SpecFlight
FlightTicks == 2

(* -------------------------- program constants ------------------------- *)
\* if (!(should_reply_lockstep || hil_actuator_controls_msg_n < 300)) return;
LOCKSTEP_BOOTSTRAP == 300
\* if (sys_time_throttle_counter++ % 1000)
SYS_TIME_THROTTLE == 1000
MAVLINK_MSG_ID_HEARTBEAT == 0
MAVLINK_MSG_ID_SYS_STATUS == 1
MAVLINK_MSG_ID_COMMAND_LONG == 76
MAVLINK_MSG_ID_HIL_ACTUATOR_CONTROLS == 93
MAV_CMD_SET_MESSAGE_INTERVAL == 511
MAV_CMD_COMPONENT_ARM_DISARM == 400
MAV_MODE_FLAG_SAFETY_ARMED == 128
\* uint16_t command_id, uint16_t vehicle_yaw
UINT16 == 65536
\* state(STATE_SIZE), dx_state(STATE_SIZE)
STATE_SIZE == 12
\* #define G_FORCE 9.81f, in mm/s^2
G_FORCE == 9810
\* this->ground_height - 0.001, in mm
GROUND_EPSILON == 1
\* double dt = (us.count() / 1000.0) / 1000.0
MICROS_PER_SECOND == 1000000
\* this->state[3] = 28, in mm/s
SEED_FORWARD_SPEED == 28000
\* conf.mass * 9.81, the weight the EOM is constructed with, in mN
WEIGHT == 10000
\* #define INITIAL_LAT 49.766809, in degE7
INITIAL_LAT_E7 == 497668090
\* #define INITIAL_LON -7.5571598, in degE7
INITIAL_LON_E7 == -75571598
\* ((state[8] * 180) / M_PI) * 100: the centidegrees of state[8], which is held
\* here in tenths of a centidegree
YAW_UNITS_PER_CDEG == 10

(* --------------------------- inbound frames --------------------------- *)
\* controls[0..15] of a HIL_ACTUATOR_CONTROLS frame, channel i holding base + i
Channels(base) == [i \in 1..16 |-> base + (i - 1)]

NoControls == [i \in 1..16 |-> 0]

Frame(id, mode, controls, command, p1, p2) ==
    [msgid |-> id, mode |-> mode, controls |-> controls,
     command |-> command, param1 |-> p1, param2 |-> p2]

HeartbeatFrame == Frame(MAVLINK_MSG_ID_HEARTBEAT, 0, NoControls, 0, 0, 0)

UnknownFrame == Frame(MAVLINK_MSG_ID_SYS_STATUS, 0, NoControls, 0, 0, 0)

\* armed (SAFETY_ARMED | HIL_ENABLED | CUSTOM_MODE_ENABLED), channels 10..25
HilArmedFrame ==
    Frame(MAVLINK_MSG_ID_HIL_ACTUATOR_CONTROLS, 161, Channels(10), 0, 0, 0)

\* disarmed (HIL_ENABLED | CUSTOM_MODE_ENABLED), channels 40..55
HilDisarmedFrame ==
    Frame(MAVLINK_MSG_ID_HIL_ACTUATOR_CONTROLS, 33, Channels(40), 0, 0, 0)

SetIntervalFrame ==
    Frame(MAVLINK_MSG_ID_COMMAND_LONG, 0, NoControls,
          MAV_CMD_SET_MESSAGE_INTERVAL, 115, 2)

OtherCommandFrame ==
    Frame(MAVLINK_MSG_ID_COMMAND_LONG, 0, NoControls,
          MAV_CMD_COMPONENT_ARM_DISARM, 1, 5)

HilFrames == {HilArmedFrame, HilDisarmedFrame}

OtherFrames == {HeartbeatFrame, UnknownFrame, SetIntervalFrame, OtherCommandFrame}

Frames == HilFrames \cup OtherFrames

\* values hil_state_quaternion_message_frequency may hold after construction
InitialPeriods == {0, 3}

(* ------------------------- the vehicle's state ------------------------ *)
\* state and dx_state hold the 12 components of the source, counted from 0 there
\* and from 1 here: lengths in mm, speeds in mm/s, accelerations in mm/s^2,
\* angles in tenths of a centidegree, forces in mN.
Zero3 == <<0, 0, 0>>

ZeroState == [i \in 1..STATE_SIZE |-> 0]

Abs(a) == IF a < 0 THEN -a ELSE a

\* v[k], k counted from 0
At(v, k) == v[k + 1]

\* v.segment(start, n)
Segment(v, start, n) == [i \in 1..n |-> v[start + i]]

\* v.segment(start, 3) = seg
SetSegment(v, start, seg) ==
    [i \in 1..Len(v) |->
        IF i > start /\ i <= start + Len(seg) THEN seg[i - start] ELSE v[i]]

\* v[k] = value
SetAt(v, k, value) == [v EXCEPT ![k + 1] = value]

\* the state of the constructor: zero but for the seeded forward speed
SeededState == SetAt(ZeroState, 3, SEED_FORWARD_SPEED)

\* (caelus_fdm::body2earth(x) * v)[2].  The attitudes explored are level
\* (roll = pitch = 0): the rotation is about the down axis and keeps v[2].
EarthDown(x, v) == v[3]

\* get_sensors().get_earth_frame_position()
get_earth_frame_position(x) == Segment(x, 0, 3)

\* get_sensors().get_earth_frame_velocity()[2]
earth_frame_velocity_down(x) == EarthDown(x, Segment(x, 3, 3))

\* (body2earth(state) * get_sensors().get_body_frame_acceleration())[2]
earth_frame_acceleration_down(x, dx) == EarthDown(x, Segment(dx, 3, 3))

\* the second conjunct with > written for >=
GroundContactStrict(x, dx, height, us) ==
    /\ At(get_earth_frame_position(x), 2) >= height - GROUND_EPSILON
    /\ earth_frame_velocity_down(x) * MICROS_PER_SECOND
           + earth_frame_acceleration_down(x, dx) * us > 0

\* the condition of the if of fake_ground_transform; the second conjunct is
\* velocity[2] + acceleration[2] * dt >= 0.0 with both sides times 10^6
GroundContact(x, dx, height, us) ==
    /\ At(get_earth_frame_position(x), 2) >= height - GROUND_EPSILON
    /\ earth_frame_velocity_down(x) * MICROS_PER_SECOND
           + earth_frame_acceleration_down(x, dx) * us >= 0

\* the assignments to this->state in the body of the if, in their order
ClampedState(x) ==
    SetSegment(SetSegment(SetSegment(SetAt(x, 2, 0), 3, Zero3), 9, Zero3), 6, Zero3)

\* the assignments to this->dx_state in the body of the if
ClampedDerivative(dx) == SetAt(SetSegment(dx, 3, Zero3), 5, G_FORCE)

\* this->is_airborne = fabs(m_fq[2]) >= fabs(m_weightFM.getF()[2])
Airborne(fq, fw) == Abs(fq) >= Abs(fw)

\* what one integration step leaves: the state, its derivative and the down
\* components of the quad-rotor thrust and of the weight at its last evaluate
Step(x, dx, fq, fw) == [x |-> x, dx |-> dx, fq |-> fq, fw |-> fw]

\* z_ground, the configured ground_height: 0 and 5 m down
GroundHeights == {0, 5000}

\* state[2] around each of the ground heights: above it, within the 0.001 of it,
\* on it
FlightDowns == {-2, -1, 0, 4998, 4999, 5000}

FlightDownSpeeds == {-1, 0, 1}

FlightDownAccelerations == {-1, 0}

\* state[8]: 0, less than half a centidegree either side of it, negative,
\* a quarter turn, 360 degrees, and 65536 centidegrees
FlightYaws == {0, 4, 5, -4, -5, 90000, -90000, 360000, 655360}

FlightRates == {Zero3, <<1, 2, 3>>}

FlightNorths == {0, 1000000}

\* quad-rotor thrust along body-down: none, and the weight's magnitude upward
FlightThrusts == {0, -WEIGHT}

\* a level state and its derivative, as an integration step leaves them
FlightStep(n, z, v, a, yaw, w, fq) ==
    Step(<<n, 7000, z, SEED_FORWARD_SPEED, 0, v, 0, 0, yaw, w[1], w[2], w[3]>>,
         <<SEED_FORWARD_SPEED, 0, v, 0, 0, a, 11, 12, 13, 14, 15, 16>>,
         fq, WEIGHT)

\* the states an integration step may leave the vehicle in: near the ground at
\* every down speed, acceleration, rate and thrust, and well above it at every
\* yaw and distance north
FlightSteps ==
    {FlightStep(0, z, v, a, 90000, w, fq) :
        z \in FlightDowns, v \in FlightDownSpeeds,
        a \in FlightDownAccelerations, w \in FlightRates, fq \in FlightThrusts}
    \cup
    {FlightStep(n, -2, -1, 0, yaw, Zero3, -WEIGHT) :
        n \in FlightNorths, yaw \in FlightYaws}

(* ----------------------------- the encoder ---------------------------- *)
\* (int32_t) of a double: the fraction is dropped, towards zero
TruncDiv(n, d) == IF n >= 0 THEN n \div d ELSE -((-n) \div d)

\* std::round: the nearest integer, halves away from zero
RoundDiv(n, d) ==
    IF n >= 0 THEN (2 * n + d) \div (2 * d) ELSE -((2 * (-n) + d) \div (2 * d))

\* caelus_fdm::convertState2LlA from (INITIAL_LAT, INITIAL_LON): the flat-earth
\* projection of state[0..2], as <<lat, lon, alt>> in halves of a degE7 and of
\* a mm (a mm north is 9/50 of half a degE7, a mm east 7/25 at this latitude)
convertState2LlA(x) ==
    <<INITIAL_LAT_E7 * 2 + TruncDiv(At(x, 0) * 9, 50),
      INITIAL_LON_E7 * 2 + TruncDiv(At(x, 1) * 7, 25),
      -2 * At(x, 2)>>

\* get_lat_lon_alt: [0] latitude in degE7, [1] longitude in degE7, [2] mm,
\* each an (int32_t) of the double
get_lat_lon_alt(x) ==
    LET d_lat_lon_alt == convertState2LlA(x)
    IN  [i \in 1..3 |-> TruncDiv(d_lat_lon_alt[i], 2)]

\* (uint16_t) of a double v: v when 0 <= v < 2^16; otherwise the conversion is
\* undefined, and the builds give v modulo 2^16 (a conversion through a wider
\* integer) or a saturated value
Uint16Casts(v) ==
    IF v >= 0 /\ v < UINT16 THEN {v} ELSE {v % UINT16, 0, UINT16 - 1}

\* the conversion without the if (*yaw == 0) that follows it
get_vehicle_yaw_no_remap(x) ==
    Uint16Casts(RoundDiv(At(x, 8), YAW_UNITS_PER_CDEG))

\* get_vehicle_yaw_wrt_earth_north: the values *yaw may hold on return
get_vehicle_yaw_wrt_earth_north(x) ==
    {IF yaw = 0 THEN (yaw + 1) % UINT16 ELSE yaw :
        yaw \in Uint16Casts(RoundDiv(At(x, 8), YAW_UNITS_PER_CDEG))}

\* hil_gps_msg packing lon_lat_alt[0], [1], [2] in the order of the fields
hil_gps_msg_unswapped(x, vehicle_yaw) ==
    LET lon_lat_alt == get_lat_lon_alt(x)
    IN  [kind |-> "HIL_GPS",
         lat |-> lon_lat_alt[1], lon |-> lon_lat_alt[2], alt |-> lon_lat_alt[3],
         vehicle_yaw |-> vehicle_yaw]

\* hil_gps_msg: mavlink_msg_hil_gps_pack(..., lat = lon_lat_alt[1],
\* lon = lon_lat_alt[0], alt = lon_lat_alt[2], ..., vehicle_yaw)
hil_gps_msg(x, vehicle_yaw) ==
    LET lon_lat_alt == get_lat_lon_alt(x)
    IN  [kind |-> "HIL_GPS",
         lat |-> lon_lat_alt[2], lon |-> lon_lat_alt[1], alt |-> lon_lat_alt[3],
         vehicle_yaw |-> vehicle_yaw]

\* hil_state_quaternion_msg: mavlink_msg_hil_state_quaternion_pack(...,
\* lat = lat_lon_alt[0], lon = lat_lon_alt[1], alt = lat_lon_alt[2], ...)
hil_state_quaternion_msg(x) ==
    LET lat_lon_alt == get_lat_lon_alt(x)
    IN  [kind |-> "HIL_STATE_QUATERNION",
         lat |-> lat_lon_alt[1], lon |-> lat_lon_alt[2], alt |-> lat_lon_alt[3]]

VARIABLES
    pc,                                   \* phase of Drone::update the simulation thread is at
    ticks,                                \* calls of Drone::update so far
    now,                                  \* clock.get_current_time_us()
    open,                                 \* connection.connection_open()
    queue,                                \* message_queue
    pushed,                               \* frames pushed so far
    armed,
    should_reply_lockstep,
    hil_actuator_controls_msg_n,
    sys_time_throttle_counter,
    last_autopilot_telemetry,
    hil_state_quaternion_message_frequency,
    thrust_propellers,                    \* the vector last given to set_control
    ailerons,
    vtol_propellers,
    trace,                                \* what the current call of update did, in order
    closedTick,                           \* the relay has been closed since this call began
    pubTicks,                             \* calls of update that published telemetry
    sysTimes,                             \* SYSTEM_TIME frames enqueued
    state,                                \* the 12-component state vector x
    dx_state,                             \* its derivative dx
    ground_height,                        \* z_ground
    is_airborne,                          \* the EOM's airborne flag
    time_locked,                          \* the clock is held locked
    hilFrames,                            \* HIL_ACTUATOR_CONTROLS frames dispatched so far
    pubsPastWindow                        \* publishing calls made with n >= 300

vars == <<pc, ticks, now, open, queue, pushed, armed, should_reply_lockstep,
          hil_actuator_controls_msg_n, sys_time_throttle_counter,
          last_autopilot_telemetry, hil_state_quaternion_message_frequency,
          thrust_propellers, ailerons, vtol_propellers, trace, closedTick,
          pubTicks, sysTimes, state, dx_state, ground_height, is_airborne,
          time_locked, hilFrames, pubsPastWindow>>

controllers == <<thrust_propellers, ailerons, vtol_propellers>>

lockstep == <<armed, should_reply_lockstep, hil_actuator_controls_msg_n>>

publisher == <<sys_time_throttle_counter, last_autopilot_telemetry, pubTicks, sysTimes,
               pubsPastWindow>>

vehicle == <<state, dx_state, is_airborne>>

(* ------------------------------ the trace ----------------------------- *)
NoMsg == [kind |-> "NONE"]

Event(ev, msg) == [ev |-> ev, msg |-> msg]

Phase(name) == Event("phase", [kind |-> name])

\* the call of fake_ground_transform and whether the body of its if ran
Correct(clamped) == Event("phase", [kind |-> "correct", clamped |-> clamped])

Enqueue(msg) == Event("enqueue", msg)

\* the call of _publish_state and what connection_open() answered it
Publish(isOpen) == Event("phase", [kind |-> "publish", open |-> isOpen])

\* connection.enqueue_message of each frame of `msgs`, in order
EnqueueAll(msgs) == [i \in 1..Len(msgs) |-> Enqueue(msgs[i])]

(* ------------------------- Drone: construction ------------------------ *)
\* last_autopilot_telemetry after k publishing calls one TickUs apart, from 0:
\* every g-th call sends the quaternion, g the least with g * TickUs > period
LastTelemetryAfter(k, period) ==
    LET g == (period \div TickUs) + 1 IN (k - (k % g)) * TickUs

\* The Drone after k calls of update with the relay open, each of which drained
\* one HilDisarmedFrame; k = 0 is the Drone as constructed.  ticks, pushed and
\* trace count from the state the run starts in.
Started(k) ==
    /\ pc = "idle"
    /\ ticks = 0
    /\ now = k * TickUs
    /\ queue = <<>>
    /\ pushed = 0
    /\ armed = FALSE
    /\ should_reply_lockstep = FALSE
    /\ hil_actuator_controls_msg_n = k
    /\ sys_time_throttle_counter = k
    /\ hil_state_quaternion_message_frequency \in InitialPeriods
    /\ last_autopilot_telemetry =
           LastTelemetryAfter(k, hil_state_quaternion_message_frequency)
    /\ thrust_propellers = (IF k = 0 THEN <<0>> ELSE <<48>>)
    /\ ailerons = (IF k = 0 THEN <<0, 0>> ELSE <<44, 45>>)
    /\ vtol_propellers = (IF k = 0 THEN <<0, 0, 0, 0>> ELSE <<40, 41, 42, 43>>)
    /\ trace = <<>>
    /\ pubTicks = k
    /\ sysTimes = (IF k = 0 THEN 0 ELSE k - 1)
    /\ state = (IF k = 0 THEN SeededState ELSE ZeroState)
    /\ dx_state = (IF k = 0 THEN ZeroState ELSE SetAt(ZeroState, 5, G_FORCE))
    /\ is_airborne = FALSE
    /\ time_locked = FALSE
    /\ hilFrames = k
    /\ pubsPastWindow = 0

\* the Drone as constructed, the relay open
Fresh ==
    /\ Started(0)
    /\ open = TRUE
    /\ closedTick = FALSE
    /\ ground_height = 0

\* the Drone as constructed over a ground plane at any of the heights
Airfield ==
    /\ Started(0)
    /\ open = TRUE
    /\ closedTick = FALSE
    /\ ground_height \in GroundHeights

\* the Drone as constructed, or one frame before the end of the bootstrap window
Init ==
    /\ \/ Started(0)
       \/ Started(LOCKSTEP_BOOTSTRAP - 1)
    /\ open \in BOOLEAN
    /\ closedTick = ~open
    /\ ground_height = 0

(* ---------------------------- I/O thread ------------------------------ *)
\* the handler marking the reply as pending itself, on the I/O thread
handle_mavlink_message_marks_reply(F, limit) ==
    /\ pushed < limit
    /\ Len(queue) < MaxQueue
    /\ \E m \in F :
          /\ queue' = Append(queue, m)
          /\ should_reply_lockstep' =
                 (should_reply_lockstep
                     \/ m.msgid = MAVLINK_MSG_ID_HIL_ACTUATOR_CONTROLS)
    /\ pushed' = pushed + 1
    /\ UNCHANGED <<pc, ticks, now, open, armed, hil_actuator_controls_msg_n,
                   publisher, hil_state_quaternion_message_frequency, controllers,
                   trace, closedTick, vehicle, ground_height, time_locked,
                   hilFrames>>

\* Drone::handle_mavlink_message: message_queue.push(m)
handle_mavlink_message(F, limit) ==
    /\ pushed < limit
    /\ Len(queue) < MaxQueue
    /\ \E m \in F : queue' = Append(queue, m)
    /\ pushed' = pushed + 1
    /\ UNCHANGED <<pc, ticks, now, open, lockstep, publisher,
                   hil_state_quaternion_message_frequency, controllers,
                   trace, closedTick, vehicle, ground_height, time_locked,
                   hilFrames>>

\* the transport opens or closes: what connection_open() answers changes
RelaySwitch ==
    /\ open' = ~open
    /\ closedTick' = (closedTick /\ ~open')
    /\ UNCHANGED <<pc, ticks, now, queue, pushed, lockstep, publisher,
                   hil_state_quaternion_message_frequency, controllers, trace,
                   vehicle, ground_height, time_locked, hilFrames>>

\* the pacing side of the Clock takes the lock between two calls of update;
\* Clock::unlock_time, called by _publish_state, releases it
lock_time ==
    /\ pc = "idle"
    /\ ~time_locked
    /\ time_locked' = TRUE
    /\ UNCHANGED <<pc, ticks, now, open, queue, pushed, lockstep, publisher,
                   hil_state_quaternion_message_frequency, controllers, trace,
                   closedTick, vehicle, ground_height, hilFrames>>

(* --------------------------- Drone::update ---------------------------- *)
\* the call of update(us): MAVLinkSystem::update(us), the clock at its new time
update(limit) ==
    /\ pc = "idle"
    /\ ticks < limit
    /\ pc' = "integrate"
    /\ ticks' = ticks + 1
    /\ now' = now + TickUs
    /\ trace' = <<>>
    /\ closedTick' = ~open
    /\ UNCHANGED <<open, queue, pushed, lockstep, publisher,
                   hil_state_quaternion_message_frequency, controllers,
                   vehicle, ground_height, time_locked, hilFrames>>

\* a step that leaves the vehicle where it stands, the thrust at zero
Standing == {Step(state, dx_state, 0, WEIGHT)}

\* DynamicObject::update(us): the step samples the three controllers and leaves
\* the state, the derivative and the airborne flag of its last evaluate; the
\* integrator and the force models are the library's, so the step is any of Steps
DynamicObject_update(Steps) ==
    /\ pc = "integrate"
    /\ pc' = "ground"
    /\ \E s \in Steps :
          /\ state' = s.x
          /\ dx_state' = s.dx
          /\ is_airborne' = Airborne(s.fq, s.fw)
    /\ trace' = trace \o <<Phase("integrate"),
                           Event("sample", [kind |-> "CONTROL",
                                            thrust |-> thrust_propellers,
                                            ailerons |-> ailerons,
                                            vtol |-> vtol_propellers])>>
    /\ UNCHANGED <<ticks, now, open, queue, pushed, lockstep, publisher,
                   hil_state_quaternion_message_frequency, controllers, closedTick,
                   ground_height, time_locked, hilFrames>>

\* fake_ground_transform(us), us the argument of update
fake_ground_transform ==
    /\ pc = "ground"
    /\ pc' = "drain"
    /\ LET clamps == GroundContact(state, dx_state, ground_height, TickUs)
       IN  /\ state' = (IF clamps THEN ClampedState(state) ELSE state)
           /\ dx_state' = (IF clamps THEN ClampedDerivative(dx_state) ELSE dx_state)
           /\ trace' = Append(trace, Correct(clamps))
    /\ UNCHANGED <<ticks, now, open, queue, pushed, lockstep, publisher,
                   hil_state_quaternion_message_frequency, controllers, closedTick,
                   ground_height, is_airborne, time_locked, hilFrames>>

(* ----------------------- inbound frame handlers ----------------------- *)
\* controls.controls[i], i counted from 0 as in the source
Ctl(controls, i) == controls[i + 1]

vtol_prop_controls(controls) == [i \in 1..4 |-> Ctl(controls, i - 1)]

ailerons_controls(controls) == [i \in 1..2 |-> Ctl(controls, 4 + (i - 1))]

thrust_propeller_controls(controls) == [i \in 1..1 |-> Ctl(controls, 8 + (i - 1))]

\* (controls.mode & MAV_MODE_FLAG_SAFETY_ARMED) > 0, mode a uint8_t
SafetyArmed(mode) ==
    ((mode \div MAV_MODE_FLAG_SAFETY_ARMED) % 2) * MAV_MODE_FLAG_SAFETY_ARMED > 0

\* the handler of the Drone without the corrector: no lockstep bookkeeping, and
\* set_control called twice on the propellers, the aileron vector last
process_hil_actuator_controls_no_corrector(m) ==
    /\ armed' = SafetyArmed(m.mode)
    /\ thrust_propellers' = ailerons_controls(m.controls)
    /\ trace' = Append(trace, Event("dispatch", m))
    /\ UNCHANGED <<should_reply_lockstep, hil_actuator_controls_msg_n, ailerons,
                   vtol_propellers, hil_state_quaternion_message_frequency>>

\* the handler with hil_actuator_controls_msg_n++ left out
process_hil_actuator_controls_uncounted(m) ==
    /\ should_reply_lockstep' = TRUE
    /\ armed' = SafetyArmed(m.mode)
    /\ thrust_propellers' = thrust_propeller_controls(m.controls)
    /\ ailerons' = ailerons_controls(m.controls)
    /\ vtol_propellers' = vtol_prop_controls(m.controls)
    /\ trace' = Append(trace, Event("dispatch", m))
    /\ UNCHANGED <<hil_actuator_controls_msg_n, hil_state_quaternion_message_frequency>>

\* the handler keeping the controls of the first frame while a reply is pending
process_hil_actuator_controls_first_wins(m) ==
    /\ should_reply_lockstep' = TRUE
    /\ hil_actuator_controls_msg_n' = hil_actuator_controls_msg_n + 1
    /\ armed' = (IF should_reply_lockstep THEN armed ELSE SafetyArmed(m.mode))
    /\ thrust_propellers' = (IF should_reply_lockstep THEN thrust_propellers
                             ELSE thrust_propeller_controls(m.controls))
    /\ ailerons' = (IF should_reply_lockstep THEN ailerons
                    ELSE ailerons_controls(m.controls))
    /\ vtol_propellers' = (IF should_reply_lockstep THEN vtol_propellers
                           ELSE vtol_prop_controls(m.controls))
    /\ trace' = Append(trace, Event("dispatch", m))
    /\ UNCHANGED hil_state_quaternion_message_frequency

process_hil_actuator_controls(m) ==
    /\ should_reply_lockstep' = TRUE
    /\ hil_actuator_controls_msg_n' = hil_actuator_controls_msg_n + 1
    /\ armed' = SafetyArmed(m.mode)
    /\ thrust_propellers' = thrust_propeller_controls(m.controls)
    /\ ailerons' = ailerons_controls(m.controls)
    /\ vtol_propellers' = vtol_prop_controls(m.controls)
    /\ trace' = Append(trace, Event("dispatch", m))
    /\ UNCHANGED hil_state_quaternion_message_frequency

\* uint16_t command_id = command.command
CommandId(m) == m.command % UINT16

\* the interval taken from param1, as the Drone without the corrector does
MessageIntervalParam1(m, old) ==
    IF CommandId(m) = MAV_CMD_SET_MESSAGE_INTERVAL THEN m.param1 ELSE old

\* the switch on command_id: what hil_state_quaternion_message_frequency becomes
MessageInterval(m, old) ==
    IF CommandId(m) = MAV_CMD_SET_MESSAGE_INTERVAL THEN m.param2 ELSE old

\* the acknowledgement moved into the case of the command that is known
CommandAcksKnownOnly(m) ==
    IF CommandId(m) = MAV_CMD_SET_MESSAGE_INTERVAL
    THEN <<[kind |-> "COMMAND_ACK", command |-> CommandId(m), result |-> 0]>>
    ELSE <<>>

\* mavlink_msg_command_ack_pack(..., command_id, 0, ...) and its enqueue_message
CommandAcks(m) ==
    <<[kind |-> "COMMAND_ACK", command |-> CommandId(m), result |-> 0]>>

process_command_long_message(m) ==
    /\ hil_state_quaternion_message_frequency' =
           MessageInterval(m, hil_state_quaternion_message_frequency)
    /\ trace' = Append(trace, Event("dispatch", m)) \o EnqueueAll(CommandAcks(m))
    /\ UNCHANGED <<lockstep, controllers>>

\* the switch with its default falling into the COMMAND_LONG case
process_mavlink_message_default_command(m) ==
    IF m.msgid = MAVLINK_MSG_ID_HEARTBEAT
    THEN /\ trace' = Append(trace, Event("dispatch", m))
         /\ UNCHANGED <<lockstep, controllers, hil_state_quaternion_message_frequency>>
    ELSE IF m.msgid = MAVLINK_MSG_ID_HIL_ACTUATOR_CONTROLS
    THEN process_hil_actuator_controls(m)
    ELSE process_command_long_message(m)

process_mavlink_message(m) ==
    IF m.msgid = MAVLINK_MSG_ID_HEARTBEAT
    THEN /\ trace' = Append(trace, Event("dispatch", m))
         /\ UNCHANGED <<lockstep, controllers, hil_state_quaternion_message_frequency>>
    ELSE IF m.msgid = MAVLINK_MSG_ID_HIL_ACTUATOR_CONTROLS
    THEN process_hil_actuator_controls(m)
    ELSE IF m.msgid = MAVLINK_MSG_ID_COMMAND_LONG
    THEN process_command_long_message(m)
    ELSE /\ trace' = Append(trace, Event("dispatch", m))
         /\ UNCHANGED <<lockstep, controllers, hil_state_quaternion_message_frequency>>

\* consume_all taking the newest frame first
process_mavlink_messages_pop_newest ==
    /\ pc = "drain"
    /\ queue # <<>>
    /\ queue' = SubSeq(queue, 1, Len(queue) - 1)
    /\ process_mavlink_message(queue[Len(queue)])
    /\ hilFrames' = hilFrames
           + (IF queue[Len(queue)].msgid = MAVLINK_MSG_ID_HIL_ACTUATOR_CONTROLS
              THEN 1 ELSE 0)
    /\ UNCHANGED <<pc, ticks, now, open, pushed, publisher, closedTick,
                   vehicle, ground_height, time_locked>>

\* _process_mavlink_messages: consume_all pops a frame and dispatches it ...
process_mavlink_messages_pop ==
    /\ pc = "drain"
    /\ queue # <<>>
    /\ queue' = Tail(queue)
    /\ process_mavlink_message(Head(queue))
    /\ hilFrames' = hilFrames
           + (IF Head(queue).msgid = MAVLINK_MSG_ID_HIL_ACTUATOR_CONTROLS
              THEN 1 ELSE 0)
    /\ UNCHANGED <<pc, ticks, now, open, pushed, publisher, closedTick,
                   vehicle, ground_height, time_locked>>

\* ... and returns when the pop finds the queue empty
process_mavlink_messages_done ==
    /\ pc = "drain"
    /\ queue = <<>>
    /\ pc' = "publish"
    /\ trace' = Append(trace, Phase("drain"))
    /\ UNCHANGED <<ticks, now, open, queue, pushed, lockstep, publisher,
                   hil_state_quaternion_message_frequency, controllers, closedTick,
                   vehicle, ground_height, time_locked, hilFrames>>

(* --------------------------- _publish_state --------------------------- *)
\* the gate without its bootstrap window
LockstepGateReplyOnly(reply, n) == reply

\* the window one frame too long
LockstepGateOffByOne(reply, n) == reply \/ n <= LOCKSTEP_BOOTSTRAP

\* && written for ||
LockstepGateBoth(reply, n) == reply /\ n < LOCKSTEP_BOOTSTRAP

\* should_reply_lockstep || hil_actuator_controls_msg_n < 300
LockstepGate(reply, n) == reply \/ n < LOCKSTEP_BOOTSTRAP

\* if (sys_time_throttle_counter++ % 1000), the counter's value before the ++
SystemTimeDue(counter) == counter % SYS_TIME_THROTTLE # 0

\* the quaternion sent as soon as the period has elapsed, not after it
should_send_autopilot_telemetry_at_period(t, last, period) == t - last >= period

\* (clock.get_current_time_us() - last_autopilot_telemetry).count() > frequency
should_send_autopilot_telemetry(t, last, period) == t - last > period

\* the state quaternion published ahead of the sensor frames
PublishedFramesQuaternionFirst(sys_time, quaternion, x, vehicle_yaw) ==
    (IF sys_time THEN <<[kind |-> "SYSTEM_TIME"]>> ELSE <<>>)
    \o (IF quaternion THEN <<hil_state_quaternion_msg(x)>> ELSE <<>>)
    \o <<hil_gps_msg(x, vehicle_yaw), [kind |-> "HIL_SENSOR"]>>

\* the frames one passing call enqueues, in the order of its enqueue_message calls
PublishedFrames(sys_time, quaternion, x, vehicle_yaw) ==
    (IF sys_time THEN <<[kind |-> "SYSTEM_TIME"]>> ELSE <<>>)
    \o <<hil_gps_msg(x, vehicle_yaw), [kind |-> "HIL_SENSOR"]>>
    \o (IF quaternion THEN <<hil_state_quaternion_msg(x)>> ELSE <<>>)

\* the telemetry enqueued ahead of the call of unlock_time
PassingCallUnlocksLast(frames) ==
    <<Publish(TRUE)>> \o EnqueueAll(frames) \o <<Event("unlock", NoMsg)>>

\* what a call that passes the gate does: clock.unlock_time(), then the frames
PassingCall(frames) ==
    <<Publish(TRUE), Event("unlock", NoMsg)>> \o EnqueueAll(frames)

\* the reply dropped by a call that finds the relay closed
publish_state_forgets_when_closed ==
    /\ pc = "publish"
    /\ pc' = "idle"
    /\ IF ~open
       THEN /\ trace' = Append(trace, Publish(FALSE))
            /\ should_reply_lockstep' = FALSE
            /\ UNCHANGED <<publisher, time_locked>>
       ELSE IF ~LockstepGate(should_reply_lockstep, hil_actuator_controls_msg_n)
       THEN /\ trace' = Append(trace, Publish(TRUE))
            /\ UNCHANGED <<should_reply_lockstep, publisher, time_locked>>
       ELSE LET sys_time == SystemTimeDue(sys_time_throttle_counter)
                quaternion == should_send_autopilot_telemetry(
                                  now, last_autopilot_telemetry,
                                  hil_state_quaternion_message_frequency)
            IN  /\ time_locked' = FALSE
                /\ sys_time_throttle_counter' = sys_time_throttle_counter + 1
                /\ should_reply_lockstep' = FALSE
                /\ last_autopilot_telemetry' =
                       (IF quaternion THEN now ELSE last_autopilot_telemetry)
                /\ \E vehicle_yaw \in get_vehicle_yaw_wrt_earth_north(state) :
                       trace' = trace \o PassingCall(
                           PublishedFrames(sys_time, quaternion, state, vehicle_yaw))
                /\ pubTicks' = pubTicks + 1
                /\ sysTimes' = sysTimes + (IF sys_time THEN 1 ELSE 0)
                /\ pubsPastWindow' = pubsPastWindow
                       + (IF hil_actuator_controls_msg_n >= LOCKSTEP_BOOTSTRAP
                          THEN 1 ELSE 0)
    /\ UNCHANGED <<ticks, now, open, queue, pushed, armed,
                   hil_actuator_controls_msg_n,
                   hil_state_quaternion_message_frequency, controllers, closedTick,
                   vehicle, ground_height, hilFrames>>

publish_state ==
    /\ pc = "publish"
    /\ pc' = "idle"
    /\ IF ~open
       THEN /\ trace' = Append(trace, Publish(FALSE))
            /\ UNCHANGED <<should_reply_lockstep, publisher, time_locked>>
       ELSE IF ~LockstepGate(should_reply_lockstep, hil_actuator_controls_msg_n)
       THEN /\ trace' = Append(trace, Publish(TRUE))
            /\ UNCHANGED <<should_reply_lockstep, publisher, time_locked>>
       ELSE LET sys_time == SystemTimeDue(sys_time_throttle_counter)
                quaternion == should_send_autopilot_telemetry(
                                  now, last_autopilot_telemetry,
                                  hil_state_quaternion_message_frequency)
            IN  /\ time_locked' = FALSE
                /\ sys_time_throttle_counter' = sys_time_throttle_counter + 1
                /\ should_reply_lockstep' = FALSE
                /\ last_autopilot_telemetry' =
                       (IF quaternion THEN now ELSE last_autopilot_telemetry)
                /\ \E vehicle_yaw \in get_vehicle_yaw_wrt_earth_north(state) :
                       trace' = trace \o PassingCall(
                           PublishedFrames(sys_time, quaternion, state, vehicle_yaw))
                /\ pubTicks' = pubTicks + 1
                /\ sysTimes' = sysTimes + (IF sys_time THEN 1 ELSE 0)
                /\ pubsPastWindow' = pubsPastWindow
                       + (IF hil_actuator_controls_msg_n >= LOCKSTEP_BOOTSTRAP
                          THEN 1 ELSE 0)
    /\ UNCHANGED <<ticks, now, open, queue, pushed, armed,
                   hil_actuator_controls_msg_n,
                   hil_state_quaternion_message_frequency, controllers, closedTick,
                   vehicle, ground_height, hilFrames>>

(* --------------------------- specifications --------------------------- *)
Next ==
    \/ update(MaxTicks)
    \/ DynamicObject_update(Standing)
    \/ fake_ground_transform
    \/ process_mavlink_messages_pop
    \/ process_mavlink_messages_done
    \/ publish_state
    \/ handle_mavlink_message(Frames, MaxPush)
    \/ RelaySwitch
    \/ lock_time

Spec == Init /\ [][Next]_vars

\* the autopilot never sends HIL_ACTUATOR_CONTROLS and the relay stays open
NextBootstrap ==
    \/ update(BootTicks)
    \/ DynamicObject_update(Standing)
    \/ fake_ground_transform
    \/ process_mavlink_messages_pop
    \/ process_mavlink_messages_done
    \/ publish_state
    \/ handle_mavlink_message(OtherFrames, MaxPush)

SpecBootstrap == Fresh /\ [][NextBootstrap]_vars

\* the simulation thread inside a call of update: nothing in the call blocks, so
\* a call that has begun runs to its end
SimulationThread ==
    \/ DynamicObject_update(Standing)
    \/ fake_ground_transform
    \/ process_mavlink_messages_pop
    \/ process_mavlink_messages_done
    \/ publish_state

\* the autopilot never sends HIL_ACTUATOR_CONTROLS, the relay stays open and the
\* clock is locked between calls
NextSilent ==
    \/ update(BootTicks)
    \/ SimulationThread
    \/ handle_mavlink_message(OtherFrames, 1)
    \/ lock_time

\* the simulator calls update again and again, and the simulation thread is
\* scheduled
SpecSilent ==
    /\ Fresh
    /\ [][NextSilent]_vars
    /\ WF_vars(update(BootTicks))
    /\ WF_vars(SimulationThread)

\* Started(LOCKSTEP_BOOTSTRAP - 1) is a state of the program: the run that feeds
\* the fresh Drone one HilDisarmedFrame before each call of update reaches it.
NextWarmup ==
    \/ /\ pc = "idle"
       /\ queue = <<>>
       /\ handle_mavlink_message({HilDisarmedFrame}, LOCKSTEP_BOOTSTRAP)
    \/ /\ queue # <<>> \/ pc # "idle"
       /\ \/ update(LOCKSTEP_BOOTSTRAP)
          \/ DynamicObject_update(Standing)
          \/ fake_ground_transform
          \/ process_mavlink_messages_pop
          \/ process_mavlink_messages_done
          \/ publish_state

SpecWarmup == Fresh /\ [][NextWarmup]_vars

\* the vehicle in flight and at the ground, over each ground height: the relay
\* open, the autopilot silent
NextFlight ==
    \/ update(FlightTicks)
    \/ DynamicObject_update(FlightSteps)
    \/ fake_ground_transform
    \/ process_mavlink_messages_done
    \/ publish_state

SpecFlight == Airfield /\ [][NextFlight]_vars

WarmupReachesStarted ==
    (pc = "idle" /\ ticks = LOCKSTEP_BOOTSTRAP - 1 /\ queue = <<>>) =>
        /\ now = (LOCKSTEP_BOOTSTRAP - 1) * TickUs
        /\ ~armed /\ ~should_reply_lockstep
        /\ hil_actuator_controls_msg_n = LOCKSTEP_BOOTSTRAP - 1
        /\ sys_time_throttle_counter = LOCKSTEP_BOOTSTRAP - 1
        /\ last_autopilot_telemetry =
               LastTelemetryAfter(LOCKSTEP_BOOTSTRAP - 1,
                                  hil_state_quaternion_message_frequency)
        /\ controllers = <<<<48>>, <<44, 45>>, <<40, 41, 42, 43>>>>
        /\ pubTicks = LOCKSTEP_BOOTSTRAP - 1
        /\ sysTimes = LOCKSTEP_BOOTSTRAP - 2
        /\ state = ZeroState
        /\ dx_state = SetAt(ZeroState, 5, G_FORCE)
        /\ ~is_airborne /\ ~time_locked
        /\ hilFrames = LOCKSTEP_BOOTSTRAP - 1
        /\ pubsPastWindow = 0

(* ======================== reading the trace =========================== *)
TelemetryKinds == {"HIL_GPS", "HIL_SENSOR", "HIL_STATE_QUATERNION", "SYSTEM_TIME"}

IsEnqueue(e) == e.ev = "enqueue"

IsPhase(e) == e.ev = "phase"

IsHilDispatch(e) ==
    e.ev = "dispatch" /\ e.msg.msgid = MAVLINK_MSG_ID_HIL_ACTUATOR_CONTROLS

IsCommandDispatch(e) ==
    e.ev = "dispatch" /\ e.msg.msgid = MAVLINK_MSG_ID_COMMAND_LONG

IsAck(e) == e.ev = "enqueue" /\ e.msg.kind = "COMMAND_ACK"

\* the kinds of the frames enqueued in t, in order
EnqueuedKinds(t) ==
    LET q == SelectSeq(t, IsEnqueue) IN [i \in 1..Len(q) |-> q[i].msg.kind]

\* how many frames of `kind` were enqueued in t
Count(t, kind) ==
    Cardinality({i \in 1..Len(t) : IsEnqueue(t[i]) /\ t[i].msg.kind = kind})

NoTelemetry(t) == \A k \in TelemetryKinds : Count(t, k) = 0

GpsAndSensorOnce(t) == Count(t, "HIL_GPS") = 1 /\ Count(t, "HIL_SENSOR") = 1

\* the phases of the call, in the order they ran
PhasesOf(t) ==
    LET q == SelectSeq(t, IsPhase) IN [i \in 1..Len(q) |-> q[i].msg.kind]

\* _publish_state ran in t and found the relay open
PublishSawOpen(t) ==
    \E i \in 1..Len(t) : IsPhase(t[i]) /\ t[i].msg.kind = "publish" /\ t[i].msg.open

\* the step is the call of _publish_state
PublishStep == pc = "publish" /\ pc' = "idle"

\* the step pops and dispatches Head(queue)
DispatchStep == pc = "drain" /\ Len(queue') < Len(queue)

TickDone == pc = "idle" /\ ticks >= 1

(* ============================== claims ================================ *)

\* C1: in a call of update during which the relay is closed throughout,
\* enqueue_message is never called, whatever frames are drained.
C1_ClosedRelayNeverEnqueues ==
    closedTick => \A i \in 1..Len(trace) : ~IsEnqueue(trace[i])

\* C2 as claimed: with no HIL_ACTUATOR_CONTROLS ever received and the relay open,
\* each of the first 300 calls of update publishes HIL_GPS and HIL_SENSOR and the
\* 301st publishes nothing.
C2_GateClosesAtCall301 ==
    TickDone =>
        IF ticks <= LOCKSTEP_BOOTSTRAP
        THEN GpsAndSensorOnce(trace)
        ELSE ticks = LOCKSTEP_BOOTSTRAP + 1 => NoTelemetry(trace)

\* C2 amended: with no HIL_ACTUATOR_CONTROLS ever received and the relay open,
\* every call of update publishes HIL_GPS and HIL_SENSOR, the 301st and later
\* ones included: the window counts frames received, not calls.
C2_BootstrapKeepsPublishing ==
    TickDone => hil_actuator_controls_msg_n = 0 /\ GpsAndSensorOnce(trace)

C2_Call301Publishes ==
    /\ pc = "idle"
    /\ ticks = LOCKSTEP_BOOTSTRAP + 1
    /\ hil_actuator_controls_msg_n = 0
    /\ GpsAndSensorOnce(trace)

\* C3 as claimed: with the relay open, a call that finds a reply pending publishes
\* once and clears the flag, and once a HIL_ACTUATOR_CONTROLS has been received
\* every call that finds no reply pending publishes nothing.
C3_GateClosesAfterOneFrame ==
    [][(PublishStep /\ open) =>
          /\ should_reply_lockstep =>
                 GpsAndSensorOnce(trace') /\ ~should_reply_lockstep'
          /\ (~should_reply_lockstep /\ hil_actuator_controls_msg_n >= 1) =>
                 NoTelemetry(trace')]_vars

\* C3 amended: with the relay open, a call that finds a reply pending publishes
\* once and clears the flag; a call that finds none publishes nothing once 300
\* HIL_ACTUATOR_CONTROLS frames have been received, and still publishes before.
C3_GateClosesAfterWindow ==
    [][(PublishStep /\ open) =>
          /\ should_reply_lockstep =>
                 GpsAndSensorOnce(trace') /\ ~should_reply_lockstep'
          /\ (~should_reply_lockstep
                /\ hil_actuator_controls_msg_n >= LOCKSTEP_BOOTSTRAP) =>
                 NoTelemetry(trace')
          /\ (~should_reply_lockstep
                /\ hil_actuator_controls_msg_n < LOCKSTEP_BOOTSTRAP) =>
                 GpsAndSensorOnce(trace')]_vars

\* the call after the 300th frame's reply: relay open, nothing drained, nothing published
C3_ClosedAgain ==
    /\ pc = "idle"
    /\ ticks = 2
    /\ hil_actuator_controls_msg_n = LOCKSTEP_BOOTSTRAP
    /\ pubTicks = LOCKSTEP_BOOTSTRAP
    /\ PublishSawOpen(trace)
    /\ \A i \in 1..Len(trace) : ~IsHilDispatch(trace[i])
    /\ NoTelemetry(trace)

\* C4: with the relay open, _publish_state enqueues exactly one HIL_GPS and one
\* HIL_SENSOR iff should_reply_lockstep or hil_actuator_controls_msg_n < 300 when
\* it runs; it then leaves should_reply_lockstep false; otherwise it enqueues no
\* telemetry frame at all.
C4_LockstepGate ==
    [][(PublishStep /\ open) =>
          LET pass == should_reply_lockstep
                        \/ hil_actuator_controls_msg_n < LOCKSTEP_BOOTSTRAP
          IN  /\ pass <=> GpsAndSensorOnce(trace')
              /\ pass => ~should_reply_lockstep'
              /\ ~pass => NoTelemetry(trace')]_vars

\* past the window, a pending reply alone opens the gate
C4_ReplyOpensGate ==
    /\ pc = "idle"
    /\ hil_actuator_controls_msg_n > LOCKSTEP_BOOTSTRAP
    /\ \E i \in 1..Len(trace) : IsHilDispatch(trace[i])
    /\ GpsAndSensorOnce(trace)
    /\ ~should_reply_lockstep

\* C5: the phases of a call run in the order drain, integrate, correct, publish,
\* so the controls of a HIL_ACTUATOR_CONTROLS frame drained in a call are the
\* ones that call's integration step samples.
C5_DrainBeforeIntegrate ==
    TickDone =>
        /\ PhasesOf(trace) = <<"drain", "integrate", "correct", "publish">>
        /\ \A i \in 1..Len(trace) : \A j \in 1..Len(trace) :
               (IsHilDispatch(trace[i]) /\ trace[j].ev = "sample") => i < j

\* C6: the sensor frames of a call are enqueued in the order HIL_GPS, HIL_SENSOR,
\* then HIL_STATE_QUATERNION when due; never the quaternion first or alone.
C6_OutboundOrder ==
    SelectSeq(EnqueuedKinds(trace),
              LAMBDA k : k \in {"HIL_GPS", "HIL_SENSOR", "HIL_STATE_QUATERNION"})
        \in {<<>>,
             <<"HIL_GPS", "HIL_SENSOR">>,
             <<"HIL_GPS", "HIL_SENSOR", "HIL_STATE_QUATERNION">>}

C6_QuaternionPublished ==
    /\ pc = "idle"
    /\ Count(trace, "HIL_STATE_QUATERNION") = 1
    /\ Count(trace, "SYSTEM_TIME") = 1

\* C7: SYSTEM_TIME goes out on one publishing call in every 1000: after p
\* publishing calls between p/1000 (rounded down) and p/1000 (rounded up)
\* SYSTEM_TIME frames have been enqueued.
C7_SystemTimeCadence ==
    /\ pubTicks \div SYS_TIME_THROTTLE <= sysTimes
    /\ sysTimes <= (pubTicks + SYS_TIME_THROTTLE - 1) \div SYS_TIME_THROTTLE

\* C8: each COMMAND_LONG dispatched is followed at once by exactly one
\* COMMAND_ACK with result 0 and the frame's command id, whatever the command;
\* no COMMAND_ACK is enqueued otherwise.
C8_CommandAck ==
    /\ \A i \in 1..Len(trace) :
          IsCommandDispatch(trace[i]) =>
              /\ i < Len(trace)
              /\ trace[i + 1] = Enqueue([kind |-> "COMMAND_ACK",
                                         command |-> trace[i].msg.command,
                                         result |-> 0])
    /\ \A j \in 1..Len(trace) :
          IsAck(trace[j]) => j > 1 /\ IsCommandDispatch(trace[j - 1])

C8_UnknownCommandAcked ==
    \E i \in 1..Len(trace) :
        /\ trace[i] = Event("dispatch", OtherCommandFrame)
        /\ i < Len(trace)
        /\ IsAck(trace[i + 1])
        /\ trace[i + 1].msg.command = MAV_CMD_COMPONENT_ARM_DISARM

\* C9: dispatching a COMMAND_LONG whose command is SET_MESSAGE_INTERVAL sets
\* hil_state_quaternion_message_frequency to the frame's param2; every other
\* step leaves it unchanged.
C9_IntervalFromParam2 ==
    [][IF /\ DispatchStep
          /\ Head(queue).msgid = MAVLINK_MSG_ID_COMMAND_LONG
          /\ Head(queue).command = MAV_CMD_SET_MESSAGE_INTERVAL
       THEN hil_state_quaternion_message_frequency' = Head(queue).param2
       ELSE hil_state_quaternion_message_frequency'
                = hil_state_quaternion_message_frequency]_vars

C9_IntervalSet ==
    /\ trace # <<>>
    /\ trace[Len(trace)].ev = "enqueue"
    /\ \E i \in 1..Len(trace) : trace[i] = Event("dispatch", SetIntervalFrame)
    /\ hil_state_quaternion_message_frequency = SetIntervalFrame.param2
    /\ hil_state_quaternion_message_frequency # SetIntervalFrame.param1

\* C10: dispatching a HIL_ACTUATOR_CONTROLS frame leaves channels 0..3 in
\* vtol_propellers, 4..5 in ailerons and 8 in thrust_propellers, and armed true
\* exactly when the SAFETY_ARMED bit (128) of the 8-bit mode is set.
C10_ControlRouting ==
    [][(DispatchStep /\ Head(queue).msgid = MAVLINK_MSG_ID_HIL_ACTUATOR_CONTROLS) =>
          LET c == Head(queue).controls
          IN  /\ vtol_propellers' = <<c[1], c[2], c[3], c[4]>>
              /\ ailerons' = <<c[5], c[6]>>
              /\ thrust_propellers' = <<c[9]>>
              /\ armed' <=> (Head(queue).mode % 256 >= 128)]_vars

C10_ArmedFrameRouted ==
    /\ trace # <<>>
    /\ trace[Len(trace)] = Event("dispatch", HilArmedFrame)
    /\ armed
    /\ vtol_propellers = <<10, 11, 12, 13>>
    /\ ailerons = <<14, 15>>
    /\ thrust_propellers = <<18>>

\* C11: dispatching a HIL_ACTUATOR_CONTROLS frame sets should_reply_lockstep and
\* adds exactly one to hil_actuator_controls_msg_n; dispatching any other frame,
\* and every other step of the call, leaves the counter as it is; so the counter
\* is the number of HIL_ACTUATOR_CONTROLS frames dispatched so far.
C11_CounterCountsHilFrames ==
    /\ [](hil_actuator_controls_msg_n = hilFrames)
    /\ [][IF DispatchStep
             /\ Head(queue).msgid = MAVLINK_MSG_ID_HIL_ACTUATOR_CONTROLS
          THEN /\ should_reply_lockstep'
               /\ hil_actuator_controls_msg_n' = hil_actuator_controls_msg_n + 1
          ELSE hil_actuator_controls_msg_n' = hil_actuator_controls_msg_n]_vars

\* two frames dispatched in one drain, after 299 earlier ones
C11_TwoFramesCounted ==
    /\ pc = "drain"
    /\ Len(trace) >= 2
    /\ IsHilDispatch(trace[Len(trace)])
    /\ IsHilDispatch(trace[Len(trace) - 1])
    /\ hilFrames = LOCKSTEP_BOOTSTRAP + 1
    /\ hil_actuator_controls_msg_n = LOCKSTEP_BOOTSTRAP + 1
    /\ should_reply_lockstep

\* the call of fake_ground_transform in t clamped
Clamped(t) == \E i \in 1..Len(t) : t[i] = Correct(TRUE)

\* C12: whenever the ground corrector clamps, the state it leaves has
\* x[3..5] = 0, x[9..11] = 0 and x[2] equal to ground_height, whatever the
\* ground height and the state before.
C12_ClampSnapsToGround ==
    Clamped(trace) =>
        /\ Segment(state, 3, 3) = Zero3
        /\ Segment(state, 9, 3) = Zero3
        /\ At(state, 2) = ground_height

\* x[2] is on the ground plane and x[3..5], x[9..11] are zero
AtRestOnGround(x, height) ==
    /\ At(x, 2) = height
    /\ Segment(x, 3, 3) = Zero3
    /\ Segment(x, 9, 3) = Zero3

\* C13: at the end of every call of update, if the airborne flag is false then
\* x[2] equals ground_height and x[3..5] and x[9..11] are all zero.
C13_GroundedMeansAtRest ==
    TickDone => (~is_airborne => AtRestOnGround(state, ground_height))

\* C14: the airborne flag goes from false to true only inside the integration
\* step (evaluate), and from true to false only in a clamping call of the ground
\* corrector: no integration step takes it from true to false, and every ground
\* clamp leaves it false.
C14_AirborneTransitions ==
    [][LET clamps == pc = "ground"
                       /\ GroundContact(state, dx_state, ground_height, TickUs)
       IN  /\ (~is_airborne /\ is_airborne') => pc = "integrate"
           /\ (is_airborne /\ ~is_airborne') => clamps
           /\ clamps => ~is_airborne']_vars

\* the frames of `kind` enqueued in t
EnqueuedOf(t, kind) ==
    {t[i].msg : i \in {j \in 1..Len(t) : IsEnqueue(t[j]) /\ t[j].msg.kind = kind}}

\* C15: the vehicle_yaw of every HIL_GPS enqueued is a uint16 other than 0,
\* whatever state[8] is: 0, negative, or with centidegrees that are a multiple
\* of 2^16.
C15_VehicleYawNonzero ==
    \A m \in EnqueuedOf(trace, "HIL_GPS") :
        m.vehicle_yaw \in 1..(UINT16 - 1)

\* a yaw of 65536 centidegrees, converted to 0 and published as 1
C15_WrappedYawPublished ==
    /\ pc = "idle"
    /\ RoundDiv(At(state, 8), YAW_UNITS_PER_CDEG) = UINT16
    /\ \E m \in EnqueuedOf(trace, "HIL_GPS") : m.vehicle_yaw = 1

\* C16: every HIL_GPS enqueued carries as lat slot [1] of get_lat_lon_alt (the
\* longitude), as lon slot [0] (the latitude) and as alt slot [2]; every
\* HIL_STATE_QUATERNION carries the slots in order: lat [0], lon [1], alt [2].
C16_GpsLatLonSwapped ==
    LET lat_lon_alt == get_lat_lon_alt(state)
    IN  /\ \A m \in EnqueuedOf(trace, "HIL_GPS") :
               /\ m.lat = lat_lon_alt[2]
               /\ m.lon = lat_lon_alt[1]
               /\ m.alt = lat_lon_alt[3]
        /\ \A m \in EnqueuedOf(trace, "HIL_STATE_QUATERNION") :
               /\ m.lat = lat_lon_alt[1]
               /\ m.lon = lat_lon_alt[2]
               /\ m.alt = lat_lon_alt[3]

\* 1000 m north of the origin: the latitude has moved, and goes out as the lon
\* of HIL_GPS and as the lat of HIL_STATE_QUATERNION
C16_NorthOfOrigin ==
    /\ pc = "idle"
    /\ At(state, 0) = 1000000
    /\ \E m \in EnqueuedOf(trace, "HIL_GPS") :
           /\ m.lon > INITIAL_LAT_E7
           /\ m.lat < 0
    /\ \E m \in EnqueuedOf(trace, "HIL_STATE_QUATERNION") :
           /\ m.lat > INITIAL_LAT_E7
           /\ m.lon < 0

\* how many times clock.unlock_time() was called in t
Unlocks(t) == Cardinality({i \in 1..Len(t) : t[i].ev = "unlock"})

\* C17: with the relay open and no HIL_ACTUATOR_CONTROLS ever received, every
\* call of update passes the gate, calls unlock_time once and publishes HIL_GPS
\* and HIL_SENSOR, leaving the clock unlocked; and a clock locked while calls
\* of update are still to come is unlocked again.
C17_NoStallWithoutReplies ==
    /\ [][PublishStep =>
             /\ hilFrames = 0
             /\ Unlocks(trace') = 1
             /\ GpsAndSensorOnce(trace')
             /\ ~time_locked']_vars
    /\ ((time_locked /\ ticks < BootTicks) ~> ~time_locked)

\* the clock locked before call 302, which unlocks it
C17_LateCallUnlocks ==
    /\ pc = "idle"
    /\ ticks = LOCKSTEP_BOOTSTRAP + 2
    /\ hilFrames = 0
    /\ Unlocks(trace) = 1
    /\ ~time_locked
    /\ pubTicks = LOCKSTEP_BOOTSTRAP + 2

\* C18: a call of update during which the relay is closed throughout publishes
\* no telemetry, still runs the integration step and the ground corrector, and
\* does not leave the clock locked for want of the publish: when the gate would
\* have let it publish, the clock is unlocked at its end.
C18_ClosedRelayLeavesClockFree ==
    [][(PublishStep /\ closedTick) =>
          /\ NoTelemetry(trace')
          /\ \E i \in 1..Len(trace') : trace'[i] = Phase("integrate")
          /\ \E i \in 1..Len(trace') :
                 IsPhase(trace'[i]) /\ trace'[i].msg.kind = "correct"
          /\ LockstepGate(should_reply_lockstep, hil_actuator_controls_msg_n) =>
                 ~time_locked']_vars

\* the step is a call of _publish_state that finds the relay open and passes the gate
PassingStep ==
    /\ PublishStep
    /\ open
    /\ should_reply_lockstep \/ hil_actuator_controls_msg_n < LOCKSTEP_BOOTSTRAP

\* C19: a publishing call enqueues HIL_STATE_QUATERNION iff the clock's time less
\* last_autopilot_telemetry is strictly greater than
\* hil_state_quaternion_message_frequency, and then sets last_autopilot_telemetry
\* to the clock's time; every other step leaves last_autopilot_telemetry as it
\* is and enqueues no HIL_STATE_QUATERNION: two of them in a row are more than the
\* period apart.
C19_QuaternionPeriod ==
    [][IF PassingStep
       THEN LET due == now - last_autopilot_telemetry
                           > hil_state_quaternion_message_frequency
            IN  /\ Count(trace', "HIL_STATE_QUATERNION") = (IF due THEN 1 ELSE 0)
                /\ last_autopilot_telemetry'
                       = (IF due THEN now ELSE last_autopilot_telemetry)
       ELSE /\ last_autopilot_telemetry' = last_autopilot_telemetry
            /\ trace' # <<>> =>
                   Count(trace', "HIL_STATE_QUATERNION")
                       = Count(trace, "HIL_STATE_QUATERNION")]_vars

\* a publishing call one TickUs after the quaternion went out, the period longer:
\* HIL_GPS and HIL_SENSOR without it
C19_QuaternionWithheld ==
    /\ pc = "idle"
    /\ GpsAndSensorOnce(trace)
    /\ Count(trace, "HIL_STATE_QUATERNION") = 0
    /\ last_autopilot_telemetry = now - TickUs
    /\ hil_state_quaternion_message_frequency >= TickUs

\* C20: clock.unlock_time() is called in a call of update iff its _publish_state
\* finds the relay open and passes the gate; then once, ahead of every telemetry
\* frame of the call, and the clock is left unlocked; no other step calls it or
\* unlocks the clock.
C20_UnlockOnlyPastGate ==
    [][IF PublishStep
       THEN /\ Unlocks(trace') = (IF PassingStep THEN 1 ELSE 0)
            /\ PassingStep => ~time_locked'
            /\ ~PassingStep => time_locked' = time_locked
            /\ \A i \in 1..Len(trace') : \A j \in 1..Len(trace') :
                   (/\ trace'[i].ev = "unlock"
                    /\ IsEnqueue(trace'[j])
                    /\ trace'[j].msg.kind \in TelemetryKinds) => i < j
       ELSE /\ Unlocks(trace') <= Unlocks(trace)
            /\ time_locked => time_locked']_vars

\* a locked clock unlocked by the reply to a HIL_ACTUATOR_CONTROLS frame, past
\* the bootstrap window
C20_ReplyUnlocks ==
    /\ pc = "idle"
    /\ hil_actuator_controls_msg_n > LOCKSTEP_BOOTSTRAP
    /\ Unlocks(trace) = 1
    /\ Count(trace, "HIL_GPS") = 1
    /\ trace[Len(trace)].ev = "enqueue"
    /\ ~time_locked

(* ------------------------------- C21 ---------------------------------- *)
\* the step is the call of fake_ground_transform
GroundStep == pc = "ground" /\ pc' = "drain"

\* C21: the ground corrector modifies the state exactly when x[2] >= z_ground -
\* 0.001 and the earth-frame down velocity plus the down acceleration times dt
\* is >= 0.  When it fires it zeroes the orientation x[6..8] and sets dx[3..5]
\* to (0, 0, 9.81), and leaves x[0], x[1], dx[0..2] and dx[6..11] as they were;
\* when the condition is false the whole of x and dx is unchanged.
C21_CorrectorFrame ==
    [][GroundStep =>
          IF /\ At(state, 2) >= ground_height - GROUND_EPSILON
             /\ earth_frame_velocity_down(state) * MICROS_PER_SECOND
                    + earth_frame_acceleration_down(state, dx_state) * TickUs >= 0
          THEN /\ trace'[Len(trace')] = Correct(TRUE)
               /\ Segment(state', 6, 3) = Zero3
               /\ Segment(dx_state', 3, 3) = <<0, 0, G_FORCE>>
               /\ Segment(state', 0, 2) = Segment(state, 0, 2)
               /\ Segment(dx_state', 0, 3) = Segment(dx_state, 0, 3)
               /\ Segment(dx_state', 6, 6) = Segment(dx_state, 6, 6)
          ELSE /\ trace'[Len(trace')] = Correct(FALSE)
               /\ state' = state
               /\ dx_state' = dx_state]_vars

\* the corrector has fired on a vehicle that came down yawed, east of the origin
\* and with angular accelerations: the yaw is gone, the rest of dx is kept
C21_ClampKeepsHorizontal ==
    /\ pc = "drain"
    /\ Clamped(trace)
    /\ At(state, 1) = 7000
    /\ Segment(state, 6, 3) = Zero3
    /\ Segment(dx_state, 0, 3) = <<SEED_FORWARD_SPEED, 0, 1>>
    /\ Segment(dx_state, 3, 3) = <<0, 0, G_FORCE>>
    /\ Segment(dx_state, 6, 6) = <<11, 12, 13, 14, 15, 16>>

(* ------------------------------- C23 ---------------------------------- *)
\* C23: dispatching a HEARTBEAT frame, or a frame whose msgid is none of the
\* three the switch knows, changes nothing of the loop controller (armed,
\* should_reply_lockstep, n, the quaternion period, the three controllers) and
\* enqueues no outbound frame.
C23_IgnoredFramesChangeNothing ==
    [][(/\ DispatchStep
        /\ Head(queue).msgid \notin {MAVLINK_MSG_ID_HIL_ACTUATOR_CONTROLS,
                                     MAVLINK_MSG_ID_COMMAND_LONG}) =>
          /\ UNCHANGED <<armed, should_reply_lockstep, hil_actuator_controls_msg_n,
                         hil_state_quaternion_message_frequency,
                         thrust_propellers, ailerons, vtol_propellers>>
          /\ SelectSeq(trace', IsEnqueue) = SelectSeq(trace, IsEnqueue)]_vars

\* a frame of unknown msgid dispatched right after an arming HIL frame:
\* the reply is still pending and the vehicle still armed
C23_IgnoredAfterHil ==
    /\ pc = "drain"
    /\ Len(trace) >= 2
    /\ trace[Len(trace)].ev = "dispatch"
    /\ trace[Len(trace)].msg.msgid = MAVLINK_MSG_ID_SYS_STATUS
    /\ trace[Len(trace) - 1] = Event("dispatch", HilArmedFrame)
    /\ should_reply_lockstep
    /\ armed
    /\ vtol_propellers = vtol_prop_controls(HilArmedFrame.controls)

(* ------------------------------- C24 ---------------------------------- *)
IsDispatch(e) == e.ev = "dispatch"

\* the frames dispatched in t, in order
Dispatched(t) ==
    LET q == SelectSeq(t, IsDispatch) IN [i \in 1..Len(q) |-> q[i].msg]

C25_OnlySimulationThreadWrites ==
    [][/\ pushed' # pushed =>
              /\ Len(queue') = Len(queue) + 1
              /\ UNCHANGED <<controllers, lockstep, publisher, vehicle, trace, pc,
                             hil_state_quaternion_message_frequency, time_locked>>
       /\ (controllers' # controllers \/ armed' # armed
              \/ hil_actuator_controls_msg_n' # hil_actuator_controls_msg_n) =>
              pc = "drain" /\ pc' = "drain" /\ pushed' = pushed
       /\ should_reply_lockstep' # should_reply_lockstep =>
              /\ (pc = "drain" /\ pc' = "drain") \/ PublishStep
              /\ pushed' = pushed
       /\ pc = "integrate" => UNCHANGED <<controllers, lockstep>>]_vars

\* an arming HIL frame was pushed and waits in the queue; the integration step
\* of the call has sampled the controllers as they were constructed
C25_FrameWaitsThroughIntegration ==
    /\ pc = "ground"
    /\ queue = <<HilArmedFrame>>
    /\ ~armed /\ ~should_reply_lockstep
    /\ hil_actuator_controls_msg_n = 0
    /\ \E i \in 1..Len(trace) :
           /\ trace[i].ev = "sample"
           /\ trace[i].msg.vtol = <<0, 0, 0, 0>>
    /\ vtol_propellers = <<0, 0, 0, 0>>

(* ------------------------------- C26 ---------------------------------- *)
\* C26: once n has reached 300, the calls of update that publish from then on
\* never outnumber the HIL frames processed from then on, the 300th frame and
\* the publish that answers it counted; the frames drained by one call yield a
\* single publish; and the window never reopens, n never decreasing: a call that
\* publishes past the window finds a reply pending.
C26_PublishesPaidByFrames ==
    /\ [](hil_actuator_controls_msg_n >= LOCKSTEP_BOOTSTRAP =>
             /\ pubsPastWindow
                    <= hil_actuator_controls_msg_n - (LOCKSTEP_BOOTSTRAP - 1)
             /\ Count(trace, "HIL_GPS") <= 1)
    /\ [][/\ hil_actuator_controls_msg_n' >= hil_actuator_controls_msg_n
           /\ (pubsPastWindow' # pubsPastWindow) =>
                  /\ should_reply_lockstep /\ ~should_reply_lockstep'
                  /\ pubsPastWindow' = pubsPastWindow + 1]_vars

\* two HIL frames past the window were answered by one publish, and the next
\* call, the relay open and no frame drained, published nothing
C26_TwoFramesOnePublish ==
    /\ pc = "idle"
    /\ hil_actuator_controls_msg_n = LOCKSTEP_BOOTSTRAP + 1
    /\ pubsPastWindow = 1
    /\ pubTicks = LOCKSTEP_BOOTSTRAP
    /\ PublishSawOpen(trace)
    /\ NoTelemetry(trace)
    /\ Dispatched(trace) = <<>>

(* ------------------------------- C27 ---------------------------------- *)
\* C27: a pending reply survives a closed relay.  A call of _publish_state that
\* finds the relay closed leaves should_reply_lockstep as it was, unlocks no
\* clock and enqueues no telemetry; the flag falls only in a call that finds the
\* relay open; and the first call that finds the relay open with the reply
\* pending publishes the telemetry and clears the flag.
C27_PendingReplySurvivesClosedRelay ==
    [][/\ (PublishStep /\ ~open) =>
              /\ should_reply_lockstep' = should_reply_lockstep
              /\ time_locked' = time_locked
              /\ Unlocks(trace') = Unlocks(trace)
              /\ NoTelemetry(trace')
       /\ (should_reply_lockstep /\ ~should_reply_lockstep') =>
              PublishStep /\ open
       /\ (PublishStep /\ open /\ should_reply_lockstep) =>
              /\ ~should_reply_lockstep'
              /\ ~time_locked'
              /\ GpsAndSensorOnce(trace')]_vars

\* the HIL frame that ended the window was drained by a call that found the
\* relay closed and published nothing; the next call drained nothing, found the
\* relay open, published and cleared the flag
C27_ReplyAfterReopening ==
    /\ pc = "idle"
    /\ ticks = 2
    /\ hil_actuator_controls_msg_n = LOCKSTEP_BOOTSTRAP
    /\ pubTicks = LOCKSTEP_BOOTSTRAP
    /\ pubsPastWindow = 1
    /\ Dispatched(trace) = <<>>
    /\ GpsAndSensorOnce(trace)
    /\ ~should_reply_lockstep

(* ------------------------------- C28 ---------------------------------- *)
\* the HIL_ACTUATOR_CONTROLS frames dispatched in t, in order
HilDispatched(t) ==
    LET q == SelectSeq(t, IsHilDispatch) IN [i \in 1..Len(q) |-> q[i].msg]

\* C28: when a call drains several HIL_ACTUATOR_CONTROLS frames, the three
\* controllers and armed hold the values of the last of them in queue order,
\* each controller's whole vector replaced; and the integration step samples
\* the controllers as the drains before it left them, so the values of the
\* earlier frames of a drain are never sampled.
C28_LastFrameWins ==
    /\ [](LET h == HilDispatched(trace)
          IN  Len(h) > 0 =>
                 LET last == h[Len(h)]
                 IN  /\ armed = ((last.mode \div MAV_MODE_FLAG_SAFETY_ARMED) % 2 = 1)
                     /\ vtol_propellers = SubSeq(last.controls, 1, 4)
                     /\ ailerons = SubSeq(last.controls, 5, 6)
                     /\ thrust_propellers = SubSeq(last.controls, 9, 9))
    /\ [][(pc = "integrate" /\ pc' = "ground") =>
              /\ UNCHANGED <<controllers, armed>>
              /\ HilDispatched(trace) = <<>>
              /\ trace'[Len(trace')].ev = "sample"
              /\ trace'[Len(trace')].msg.vtol = vtol_propellers
              /\ trace'[Len(trace')].msg.ailerons = ailerons
              /\ trace'[Len(trace')].msg.thrust = thrust_propellers]_vars

\* one drain has dispatched an arming frame and then a disarming frame with
\* other controls: the Drone is disarmed and holds the second frame's controls
C28_SecondOfTwoFramesHeld ==
    /\ pc = "publish"
    /\ HilDispatched(trace) = <<HilArmedFrame, HilDisarmedFrame>>
    /\ ~armed
    /\ vtol_propellers = <<40, 41, 42, 43>>
    /\ ailerons = <<44, 45>>
    /\ thrust_propellers = <<48>>

====
